---- MODULE Spec2Model ----
(***************************************************************************)
(* The guest-facing AvPlayer facade of src/core/libraries/avplayer/        *)
(* avplayer.cpp: GetPriority, the two initialisation entry points and the  *)
(* per-handle entry points, over a heap of AvPlayer objects.               *)
(*                                                                         *)
(* A handle is the identity of one AvPlayer object (0 is nullptr).  An     *)
(* object that was deleted stays Destroyed: a later `new AvPlayer()` is a  *)
(* different object, whatever address the allocator gives it.              *)
(*                                                                         *)
(* 32-bit and 64-bit unsigned values are kept as 16-bit limbs, so that the *)
(* s32 -> u32, int -> u64 and int -> bool conversions the C++ performs are *)
(* computed, not assumed.                                                  *)
(***************************************************************************)
EXTENDS Integers, Sequences, FiniteSets, TLC

VARIABLES
    state,       \* [Handles -> lifecycle state of the AvPlayer object]
    priorities,  \* [Handles -> ThreadPriorities handed to AvPlayer::Init]
    freed,       \* [Handles -> number of times `delete` ran on the object]
    slot,        \* the caller's SceAvPlayerHandle variable written by InitEx
    call,        \* the last facade call and its arguments
    ret,         \* the value that call returned
    invoked,     \* the AvPlayer member functions that call invoked
    crashed      \* undefined behaviour ended the process

vars == <<state, priorities, freed, slot, call, ret, invoked, crashed>>

\* ---------------------------------------------------------------- bounds
MaxHandles == 1
MaxFrees == 2
DeriveBaseMax == 1000

Live == {"Ready", "Active"}

\* ------------------------------------------------------------- constants
NULL == 0
ORBIS_OK == 0
ORBIS_AVPLAYER_ERROR_INVALID_PARAMS == -2140536831

\* --------------------------------------------------- fixed-width integers
\* u32 as two 16-bit limbs
NatToU32(n) == [hi |-> n \div 65536, lo |-> n % 65536]

\* conversion of an s32 to u32 (modulo 2^32)
S32ToU32(s) ==
    IF s >= 0 THEN NatToU32(s)
    ELSE LET t == (s + 2147483647) + 1
         IN  [hi |-> 32768 + (t \div 65536), lo |-> t % 65536]

U32ToNat(u) == u.hi * 65536 + u.lo

U32Less(a, b) == a.hi < b.hi \/ (a.hi = b.hi /\ a.lo < b.lo)

\* std::max(a, b) == (a < b) ? b : a
U32Max(a, b) == IF U32Less(a, b) THEN b ELSE a

\* std::min(a, b) == (b < a) ? b : a
U32Min(a, b) == IF U32Less(b, a) THEN b ELSE a

\* u32 addition wraps modulo 2^32
U32Add(a, b) ==
    LET lo == a.lo + b.lo
        hi == a.hi + b.hi + (lo \div 65536)
    IN  [hi |-> hi % 65536, lo |-> lo % 65536]

\* conversion of an int to u64: sign extension, four 16-bit limbs
S32ToU64(s) ==
    LET u   == S32ToU32(s)
        ext == IF s < 0 THEN 65535 ELSE 0
    IN  <<ext, ext, u.hi, u.lo>>

\* ------------------------------------------------------- returned values
S32(v)  == [type |-> "s32", val |-> v]
Bool(b) == [type |-> "bool", val |-> b]
U64(w)  == [type |-> "u64", val |-> w]
Handle(h) == [type |-> "handle", val |-> h]
NoReturn == [type |-> "none", val |-> 0]

\* `return <int constant>;` in a function whose return type is rtype
ReturnInt(rtype, v) ==
    CASE rtype = "s32"  -> S32(v)
      [] rtype = "bool" -> Bool(v # 0)
      [] rtype = "u64"  -> U64(S32ToU64(v))

\* ---------------------------------------------------------- GetPriority
GetPriority_NoUpperClamp(base, offset) ==
    U32Add(U32Min(U32Max(NatToU32(637), base), NatToU32(764)), offset)

GetPriority_NoLowerClamp(base, offset) ==
    U32Min(U32Add(U32Min(base, NatToU32(764)), offset), NatToU32(767))

GetPriority(base, offset) ==
    U32Min(U32Add(U32Min(U32Max(NatToU32(637), base), NatToU32(764)), offset),
           NatToU32(767))

\* ------------------------------------------------- AvPlayer (the handle)
NoPriorities == [set |-> FALSE]

\* `new AvPlayer()`: a fresh object
Fresh(h) ==
    /\ h \in DOMAIN state
    /\ state[h] = "Uninitialized"
    /\ \A g \in DOMAIN state : g < h => state[g] # "Uninitialized"

\* AvPlayer::Init(data, priorities)
AvPlayerInit(h, p) ==
    /\ state' = [state EXCEPT ![h] = "Ready"]
    /\ priorities' = [priorities EXCEPT ![h] = p]

\* the values the member functions of a live AvPlayer return
MethodResults(method, h) ==
    CASE method \in {"AddSource", "EnableStream", "GetStreamInfo", "PostInit",
                     "Start", "Stop"}
                                 -> {S32(ORBIS_OK), S32(-2140536830)}
      [] method \in {"GetAudioData", "GetVideoData"}
                                 -> {Bool(TRUE), Bool(FALSE)}
      [] method = "IsActive"     -> {Bool(state[h] = "Active")}
      [] method = "CurrentTime"  -> {U64(<<0, 0, 0, 0>>), U64(<<0, 0, 0, 1000>>)}
      [] method = "GetStreamCount" -> {S32(0), S32(2)}

\* what a call through a dangling pointer may hand back
GarbageResults(method) ==
    CASE method \in {"AddSource", "EnableStream", "GetStreamInfo", "PostInit",
                     "Start", "Stop"}
                                 -> {S32(ORBIS_OK), S32(-2140536830)}
      [] method \in {"GetAudioData", "GetVideoData", "IsActive"}
                                 -> {Bool(TRUE), Bool(FALSE)}
      [] method = "CurrentTime"  -> {U64(<<0, 0, 0, 0>>), U64(<<0, 0, 0, 1000>>)}
      [] method = "GetStreamCount" -> {S32(0), S32(2)}

\* the lifecycle effect of a member function that returned r
MethodEffect(method, h, r) ==
    CASE method = "Start" /\ r.val = ORBIS_OK -> [state EXCEPT ![h] = "Active"]
      [] method = "Stop" /\ r.val = ORBIS_OK  -> [state EXCEPT ![h] = "Ready"]
      [] OTHER -> state

\* --------------------------------------------------------- initialisation
MissingAllocator_SkipsDeallocateTexture(memory_replacement) ==
    \/ memory_replacement.allocate = NULL
    \/ memory_replacement.allocate_texture = NULL
    \/ memory_replacement.deallocate = NULL

MissingAllocator(memory_replacement) ==
    \/ memory_replacement.allocate = NULL
    \/ memory_replacement.allocate_texture = NULL
    \/ memory_replacement.deallocate = NULL
    \/ memory_replacement.deallocate_texture = NULL

BasePriority_NoDefault(data) == S32ToU32(data.base_priority)

\* const u32 base_priority = data->base_priority != 0 ? data->base_priority : 700;
BasePriority(data) ==
    S32ToU32(IF data.base_priority # 0 THEN data.base_priority ELSE 700)

\* s32 base_priority after the scePthreadGetprio query and its fallback
ThreadBasePriority(getprio) ==
    IF getprio.res # 0 \/ getprio.prio = 0 THEN 700 ELSE getprio.prio

SubsystemPriority_AlwaysDerived(override, base_priority, offset) ==
    U32ToNat(GetPriority(S32ToU32(base_priority), NatToU32(offset)))

\* if (p_data->x_priority != 0) x = p_data->x_priority; else x = GetPriority(base, k);
SubsystemPriority(override, base_priority, offset) ==
    IF override # 0
    THEN override
    ELSE U32ToNat(GetPriority(S32ToU32(base_priority), NatToU32(offset)))

Rejected(c, r) ==
    /\ call' = c
    /\ ret' = r
    /\ invoked' = <<>>
    /\ UNCHANGED <<state, priorities, freed, slot, crashed>>

sceAvPlayerInit(data) ==
    /\ ~crashed
    /\ LET c == [op |-> "sceAvPlayerInit", data |-> data]
       IN  IF data.null
           THEN Rejected(c, Handle(NULL))
           ELSE IF MissingAllocator(data.memory_replacement)
           THEN Rejected(c, Handle(NULL))
           ELSE \E player \in DOMAIN state :
                  /\ Fresh(player)
                  /\ LET base_priority == BasePriority(data)
                         p == [set |-> TRUE,
                               video_decoder_priority |->
                                   U32ToNat(GetPriority(base_priority, NatToU32(5))),
                               audio_decoder_priority |->
                                   U32ToNat(GetPriority(base_priority, NatToU32(6))),
                               demuxer_priority |->
                                   U32ToNat(GetPriority(base_priority, NatToU32(9))),
                               controller_priority |->
                                   U32ToNat(GetPriority(base_priority, NatToU32(2))),
                               video_decoder_affinity |-> 0,
                               audio_decoder_affinity |-> 0,
                               demuxer_affinity |-> 0,
                               controller_affinity |-> 0]
                     IN  AvPlayerInit(player, p)
                  /\ call' = c
                  /\ ret' = Handle(player)
                  /\ invoked' = <<[h |-> player, method |-> "Init", result |-> NoReturn]>>
                  /\ UNCHANGED <<freed, slot, crashed>>

sceAvPlayerInitEx(p_data, p_player, getprio) ==
    /\ ~crashed
    /\ LET c == [op |-> "sceAvPlayerInitEx", p_data |-> p_data,
                 p_player |-> p_player, getprio |-> getprio]
       IN  IF p_data.null \/ p_player = NULL
           THEN Rejected(c, S32(ORBIS_AVPLAYER_ERROR_INVALID_PARAMS))
           ELSE IF MissingAllocator(p_data.memory_replacement)
           THEN Rejected(c, S32(ORBIS_AVPLAYER_ERROR_INVALID_PARAMS))
           ELSE \E player \in DOMAIN state :
                  /\ Fresh(player)
                  /\ LET base_priority == ThreadBasePriority(getprio)
                         p == [set |-> TRUE,
                               video_decoder_priority |->
                                   SubsystemPriority(p_data.video_decoder_priority,
                                                     base_priority, 5),
                               video_decoder_affinity |-> p_data.video_decoder_affinity,
                               audio_decoder_priority |->
                                   SubsystemPriority(p_data.audio_decoder_priority,
                                                     base_priority, 6),
                               audio_decoder_affinity |-> p_data.audio_decoder_affinity,
                               controller_priority |->
                                   SubsystemPriority(p_data.controller_priority,
                                                     base_priority, 2),
                               controller_affinity |-> p_data.controller_affinity,
                               demuxer_priority |->
                                   SubsystemPriority(p_data.demuxer_priority,
                                                     base_priority, 9),
                               demuxer_affinity |-> p_data.demuxer_affinity]
                     IN  AvPlayerInit(player, p)
                  /\ slot' = player
                  /\ call' = c
                  /\ ret' = S32(ORBIS_OK)
                  /\ invoked' = <<[h |-> player, method |-> "Init", result |-> NoReturn]>>
                  /\ UNCHANGED <<freed, crashed>>

\* ------------------------------------------------- per-handle entry points
\* a member function called through `handle` (live, or dangling after Close)
Invoke(c, method, handle) ==
    /\ call' = c
    /\ IF state[handle] \in Live
       THEN \E res \in MethodResults(method, handle) :
              /\ invoked' = <<[h |-> handle, method |-> method, result |-> res]>>
              /\ state' = MethodEffect(method, handle, res)
              /\ UNCHANGED <<priorities, freed, slot, crashed>>
       ELSE \/ /\ crashed' = TRUE
               /\ invoked' = <<[h |-> handle, method |-> method, result |-> NoReturn]>>
               /\ UNCHANGED <<state, priorities, freed, slot>>
            \/ \E res \in GarbageResults(method) :
               /\ invoked' = <<[h |-> handle, method |-> method, result |-> res]>>
               /\ UNCHANGED <<state, priorities, freed, slot, crashed>>

Delegate_ReturnsOk(op, method, rtype, handle, arg) ==
    /\ ~crashed
    /\ LET c == [op |-> op, handle |-> handle, arg |-> arg]
       IN  IF handle = NULL \/ arg = NULL
           THEN Rejected(c, ReturnInt(rtype, ORBIS_AVPLAYER_ERROR_INVALID_PARAMS))
           ELSE /\ Invoke(c, method, handle)
                /\ ret' = IF crashed' THEN NoReturn ELSE ReturnInt(rtype, ORBIS_OK)

\* if (handle == nullptr || arg == nullptr) return INVALID_PARAMS;
\* const auto res = handle->method(...); return res;
Delegate(op, method, rtype, handle, arg) ==
    /\ ~crashed
    /\ LET c == [op |-> op, handle |-> handle, arg |-> arg]
       IN  IF handle = NULL \/ arg = NULL
           THEN Rejected(c, ReturnInt(rtype, ORBIS_AVPLAYER_ERROR_INVALID_PARAMS))
           ELSE /\ Invoke(c, method, handle)
                /\ ret' = invoked'[1].result

Stub_NoNullCheck(op, handle) ==
    /\ ~crashed
    /\ Rejected([op |-> op, handle |-> handle, arg |-> 1], S32(ORBIS_OK))

\* if (handle == nullptr) return INVALID_PARAMS; return ORBIS_OK;
Stub(op, handle) ==
    /\ ~crashed
    /\ LET c == [op |-> op, handle |-> handle, arg |-> 1]
       IN  IF handle = NULL
           THEN Rejected(c, S32(ORBIS_AVPLAYER_ERROR_INVALID_PARAMS))
           ELSE Rejected(c, S32(ORBIS_OK))

\* return ORBIS_OK;
StubNoHandle(op) ==
    /\ ~crashed
    /\ Rejected([op |-> op, handle |-> NULL, arg |-> 1], S32(ORBIS_OK))

sceAvPlayerAddSource(handle) ==
    Delegate("sceAvPlayerAddSource", "AddSource", "s32", handle, 1)

sceAvPlayerAddSourceEx(handle) == Stub("sceAvPlayerAddSourceEx", handle)

sceAvPlayerChangeStream == StubNoHandle("sceAvPlayerChangeStream")

sceAvPlayerClose_Leaks(handle) ==
    /\ ~crashed
    /\ LET c == [op |-> "sceAvPlayerClose", handle |-> handle, arg |-> 1]
       IN  IF handle = NULL
           THEN Rejected(c, S32(ORBIS_AVPLAYER_ERROR_INVALID_PARAMS))
           ELSE Rejected(c, S32(ORBIS_OK))

sceAvPlayerClose(handle) ==
    /\ ~crashed
    /\ LET c == [op |-> "sceAvPlayerClose", handle |-> handle, arg |-> 1]
       IN  IF handle = NULL
           THEN Rejected(c, S32(ORBIS_AVPLAYER_ERROR_INVALID_PARAMS))
           ELSE /\ call' = c
                /\ invoked' = <<[h |-> handle, method |-> "~AvPlayer",
                                 result |-> NoReturn]>>
                /\ IF state[handle] \in Live
                   THEN \* delete handle
                        /\ state' = [state EXCEPT ![handle] = "Destroyed"]
                        /\ freed' = [freed EXCEPT ![handle] = @ + 1]
                        /\ ret' = S32(ORBIS_OK)
                        /\ UNCHANGED <<priorities, slot, crashed>>
                   ELSE \* delete of an object already deleted
                        \/ /\ freed[handle] < MaxFrees
                           /\ freed' = [freed EXCEPT ![handle] = @ + 1]
                           /\ ret' = S32(ORBIS_OK)
                           /\ UNCHANGED <<state, priorities, slot, crashed>>
                        \/ /\ crashed' = TRUE
                           /\ ret' = NoReturn
                           /\ UNCHANGED <<state, priorities, freed, slot>>

sceAvPlayerCurrentTime(handle) ==
    Delegate("sceAvPlayerCurrentTime", "CurrentTime", "u64", handle, 1)

sceAvPlayerDisableStream(handle) == Stub("sceAvPlayerDisableStream", handle)

sceAvPlayerEnableStream(handle) ==
    Delegate("sceAvPlayerEnableStream", "EnableStream", "s32", handle, 1)

sceAvPlayerGetAudioData(handle, p_info) ==
    Delegate("sceAvPlayerGetAudioData", "GetAudioData", "bool", handle, p_info)

sceAvPlayerGetStreamInfo(handle, p_info) ==
    Delegate("sceAvPlayerGetStreamInfo", "GetStreamInfo", "s32", handle, p_info)

sceAvPlayerGetVideoData(handle, video_info) ==
    Delegate("sceAvPlayerGetVideoData", "GetVideoData", "bool", handle, video_info)

sceAvPlayerGetVideoDataEx(handle, video_info) ==
    Delegate("sceAvPlayerGetVideoDataEx", "GetVideoData", "bool", handle, video_info)

sceAvPlayerIsActive(handle) ==
    Delegate("sceAvPlayerIsActive", "IsActive", "bool", handle, 1)

sceAvPlayerJumpToTime(handle) == Stub("sceAvPlayerJumpToTime", handle)

sceAvPlayerPause(handle) == Stub("sceAvPlayerPause", handle)

sceAvPlayerPostInit(handle, data) ==
    Delegate("sceAvPlayerPostInit", "PostInit", "s32", handle, data)

sceAvPlayerPrintf == StubNoHandle("sceAvPlayerPrintf")

sceAvPlayerResume(handle) == Stub("sceAvPlayerResume", handle)

sceAvPlayerSetAvSyncMode(handle) == Stub("sceAvPlayerSetAvSyncMode", handle)

sceAvPlayerSetLogCallback == StubNoHandle("sceAvPlayerSetLogCallback")

sceAvPlayerSetLooping(handle) == Stub("sceAvPlayerSetLooping", handle)

sceAvPlayerSetTrickSpeed(handle) == Stub("sceAvPlayerSetTrickSpeed", handle)

sceAvPlayerStart(handle) ==
    Delegate("sceAvPlayerStart", "Start", "s32", handle, 1)

sceAvPlayerStop(handle) ==
    Delegate("sceAvPlayerStop", "Stop", "s32", handle, 1)

sceAvPlayerStreamCount(handle) ==
    Delegate("sceAvPlayerStreamCount", "GetStreamCount", "s32", handle, 1)

sceAvPlayerVprintf == StubNoHandle("sceAvPlayerVprintf")

\* ------------------------------------------------------------ the callers
\* pointer arguments: nullptr or the address of a caller's object
Pointers == {NULL, 1}

\* the handles a caller can hold: nullptr or one an Init variant gave out
Held == {NULL} \cup {h \in DOMAIN state : state[h] # "Uninitialized"}

AllAllocators ==
    [allocate |-> 1, allocate_texture |-> 1, deallocate |-> 1, deallocate_texture |-> 1]

AllocatorNames == {"allocate", "allocate_texture", "deallocate", "deallocate_texture"}

\* all four callbacks, exactly one of them missing, or none of them
MemoryReplacements ==
    {AllAllocators}
    \cup {[AllAllocators EXCEPT ![f] = NULL] : f \in AllocatorNames}
    \cup {[f \in AllocatorNames |-> NULL]}

BasePriorities == {0, 1, 700, 764, 1000}

InitDatas(mrs, bases) ==
    {[null |-> n, memory_replacement |-> m, base_priority |-> b] :
        n \in {FALSE}, m \in mrs, b \in bases}
    \cup {[null |-> TRUE, memory_replacement |-> AllAllocators, base_priority |-> 0]}

Overrides == {0, 900}

InitDataExs(mrs, overrides, affinities) ==
    {[null |-> FALSE, memory_replacement |-> m,
      video_decoder_priority |-> v, audio_decoder_priority |-> a,
      controller_priority |-> c, demuxer_priority |-> d,
      video_decoder_affinity |-> f[1], audio_decoder_affinity |-> f[2],
      controller_affinity |-> f[3], demuxer_affinity |-> f[4]] :
        m \in mrs, v \in overrides, a \in overrides, c \in overrides,
        d \in overrides, f \in affinities}
    \cup {[null |-> TRUE, memory_replacement |-> AllAllocators,
           video_decoder_priority |-> 0, audio_decoder_priority |-> 0,
           controller_priority |-> 0, demuxer_priority |-> 0,
           video_decoder_affinity |-> 0, audio_decoder_affinity |-> 0,
           controller_affinity |-> 0, demuxer_affinity |-> 0]}

\* what scePthreadGetprio(scePthreadSelf(), &base_priority) does: its status
\* and the value left in base_priority
Getprios ==
    {[res |-> 0, prio |-> p] : p \in {-1, 0, 100, 1000}}
    \cup {[res |-> 22, prio |-> 500]}

\* ------------------------------------------------ the facade, all of it
Init ==
    /\ state = [h \in 1..MaxHandles |-> "Uninitialized"]
    /\ priorities = [h \in 1..MaxHandles |-> NoPriorities]
    /\ freed = [h \in 1..MaxHandles |-> 0]
    /\ slot = NULL
    /\ call = [op |-> "none"]
    /\ ret = NoReturn
    /\ invoked = <<>>
    /\ crashed = FALSE

Next ==
    \/ \E data \in InitDatas({AllAllocators, [AllAllocators EXCEPT !.deallocate = NULL]},
                             {0}) : sceAvPlayerInit(data)
    \/ \E p_data \in InitDataExs({AllAllocators,
                                  [AllAllocators EXCEPT !.allocate_texture = NULL]},
                                 {0}, {<<0, 0, 0, 0>>}),
          p_player \in Pointers, getprio \in {[res |-> 0, prio |-> 700]} :
          sceAvPlayerInitEx(p_data, p_player, getprio)
    \/ \E handle \in Held : sceAvPlayerAddSource(handle)
    \/ \E handle \in Held : sceAvPlayerAddSourceEx(handle)
    \/ sceAvPlayerChangeStream
    \/ \E handle \in Held : sceAvPlayerClose(handle)
    \/ \E handle \in Held : sceAvPlayerCurrentTime(handle)
    \/ \E handle \in Held : sceAvPlayerDisableStream(handle)
    \/ \E handle \in Held : sceAvPlayerEnableStream(handle)
    \/ \E handle \in Held, p_info \in Pointers : sceAvPlayerGetAudioData(handle, p_info)
    \/ \E handle \in Held, p_info \in Pointers : sceAvPlayerGetStreamInfo(handle, p_info)
    \/ \E handle \in Held, video_info \in Pointers :
          sceAvPlayerGetVideoData(handle, video_info)
    \/ \E handle \in Held, video_info \in Pointers :
          sceAvPlayerGetVideoDataEx(handle, video_info)
    \/ \E handle \in Held : sceAvPlayerIsActive(handle)
    \/ \E handle \in Held : sceAvPlayerJumpToTime(handle)
    \/ \E handle \in Held : sceAvPlayerPause(handle)
    \/ \E handle \in Held, data \in Pointers : sceAvPlayerPostInit(handle, data)
    \/ sceAvPlayerPrintf
    \/ \E handle \in Held : sceAvPlayerResume(handle)
    \/ \E handle \in Held : sceAvPlayerSetAvSyncMode(handle)
    \/ sceAvPlayerSetLogCallback
    \/ \E handle \in Held : sceAvPlayerSetLooping(handle)
    \/ \E handle \in Held : sceAvPlayerSetTrickSpeed(handle)
    \/ \E handle \in Held : sceAvPlayerStart(handle)
    \/ \E handle \in Held : sceAvPlayerStop(handle)
    \/ \E handle \in Held : sceAvPlayerStreamCount(handle)
    \/ sceAvPlayerVprintf

Spec == Init /\ [][Next]_vars

\* ------------------------------------------- the two initialisations alone
NextInit ==
    \/ \E data \in InitDatas({AllAllocators}, BasePriorities)
                   \cup InitDatas(MemoryReplacements, {700}) : sceAvPlayerInit(data)
    \/ \E p_data \in InitDataExs({AllAllocators}, Overrides, {<<1, 2, 4, 8>>}),
          getprio \in Getprios :
          sceAvPlayerInitEx(p_data, 1, getprio)
    \/ \E p_data \in InitDataExs(MemoryReplacements, {900}, {<<0, 0, 0, 0>>}),
          p_player \in Pointers :
          sceAvPlayerInitEx(p_data, p_player, [res |-> 0, prio |-> 700])

SpecInit == Init /\ [][NextInit]_vars

\* ----------------------------------------------------- GetPriority alone
Offsets == {2, 5, 6, 9}

InitDerive ==
    /\ state = [h \in 1..MaxHandles |-> "Uninitialized"]
    /\ priorities = [h \in 1..MaxHandles |-> NoPriorities]
    /\ freed = [h \in 1..MaxHandles |-> 0]
    /\ slot = NULL
    /\ call \in {[op |-> "GetPriority", base |-> b, offset |-> o] :
                    b \in 0..DeriveBaseMax, o \in Offsets}
    /\ ret = NoReturn
    /\ invoked = <<>>
    /\ crashed = FALSE

Derive ==
    /\ ret = NoReturn
    /\ ret' = [type |-> "u32",
               val |-> U32ToNat(GetPriority(NatToU32(call.base), NatToU32(call.offset)))]
    /\ UNCHANGED <<state, priorities, freed, slot, call, invoked, crashed>>

NextDerive == Derive

SpecDerive == InitDerive /\ [][NextDerive]_vars

\* ================================================================ claims
IMin(a, b) == IF a <= b THEN a ELSE b
IMax(a, b) == IF a >= b THEN a ELSE b

\* min(min(max(637, base), 764) + offset, 767) over the integers
Clamped(base, offset) == IMin(IMin(IMax(637, base), 764) + offset, 767)

\* the C++ comparison `r == code` of a returned value with an int status code
RetIsCode(r, code) ==
    CASE r.type = "s32"  -> r.val = code
      [] r.type = "bool" -> (IF r.val THEN 1 ELSE 0) = code
      [] r.type = "u64"  -> r.val = S32ToU64(code)
      [] OTHER -> FALSE

LacksCallback(mr) == \E f \in AllocatorNames : mr[f] = NULL

InBand(p) == p \in 637..767

\* C1: for every base in 0..1000 and every offset in {2,5,6,9},
\* GetPriority(base, offset) = min(min(max(637, base), 764) + offset, 767);
\* GetPriority(0,5)=642, GetPriority(700,5)=705, GetPriority(1000,9)=767 and
\* GetPriority(637,2)=639.
C1_GetPriorityClamps ==
    ret.type = "u32" =>
        /\ ret.val = Clamped(call.base, call.offset)
        /\ (call.base = 0 /\ call.offset = 5 => ret.val = 642)
        /\ (call.base = 700 /\ call.offset = 5 => ret.val = 705)
        /\ (call.base = 1000 /\ call.offset = 9 => ret.val = 767)
        /\ (call.base = 637 /\ call.offset = 2 => ret.val = 639)

C1_Witness ==
    /\ ret.type = "u32"
    /\ call.base = 1000
    /\ call.offset = 9
    /\ ret.val = 767

NonInitOps ==
    {"sceAvPlayerAddSource", "sceAvPlayerAddSourceEx", "sceAvPlayerClose",
     "sceAvPlayerCurrentTime", "sceAvPlayerEnableStream", "sceAvPlayerDisableStream",
     "sceAvPlayerGetAudioData", "sceAvPlayerGetVideoData", "sceAvPlayerGetVideoDataEx",
     "sceAvPlayerGetStreamInfo", "sceAvPlayerIsActive", "sceAvPlayerJumpToTime",
     "sceAvPlayerPause", "sceAvPlayerPostInit", "sceAvPlayerResume",
     "sceAvPlayerSetAvSyncMode", "sceAvPlayerSetLooping", "sceAvPlayerSetTrickSpeed",
     "sceAvPlayerStart", "sceAvPlayerStop", "sceAvPlayerStreamCount"}

\* C2: every non-init operation called with a null handle or a null required
\* output pointer returns INVALID_PARAMS as its observable result, calls no
\* PlayerHandle method and changes no handle state, whatever its return type.
C2_NullRejectedUniformly ==
    [][(call'.op \in NonInitOps /\ (call'.handle = NULL \/ call'.arg = NULL)) =>
          /\ RetIsCode(ret', ORBIS_AVPLAYER_ERROR_INVALID_PARAMS)
          /\ invoked' = <<>>
          /\ UNCHANGED <<state, priorities, freed, slot>>]_vars

\* C3: an Init of either variant whose config lacks one of the four memory
\* callbacks constructs no handle: Simple Init returns the null handle, Extended
\* Init returns INVALID_PARAMS and leaves the output slot as it was.
C3_MissingCallbackRejected ==
    [][/\ (/\ call'.op = "sceAvPlayerInit"
           /\ ~call'.data.null
           /\ LacksCallback(call'.data.memory_replacement)) =>
              /\ ret' = Handle(NULL)
              /\ invoked' = <<>>
              /\ UNCHANGED <<state, priorities, freed, slot>>
       /\ (/\ call'.op = "sceAvPlayerInitEx"
           /\ ~call'.p_data.null
           /\ LacksCallback(call'.p_data.memory_replacement)) =>
              /\ ret' = S32(ORBIS_AVPLAYER_ERROR_INVALID_PARAMS)
              /\ invoked' = <<>>
              /\ UNCHANGED <<state, priorities, freed, slot>>]_vars

C3_Witness ==
    /\ call.op = "sceAvPlayerInitEx"
    /\ call.p_player # NULL
    /\ call.p_data.memory_replacement = [AllAllocators EXCEPT !.deallocate_texture = NULL]
    /\ call.p_data.video_decoder_priority = 900
    /\ ret = S32(ORBIS_AVPLAYER_ERROR_INVALID_PARAMS)
    /\ slot # NULL
    /\ state[slot] = "Ready"

\* the base Extended Init derives from, as the claims state it
QueriedBase(getprio) == IF getprio.res = 0 /\ getprio.prio # 0 THEN getprio.prio ELSE 700

ExSucceeded == call.op = "sceAvPlayerInitEx" /\ ret = S32(ORBIS_OK)

\* C4: in Extended Init each subsystem's priority is its override when that is
\* nonzero, and otherwise GetPriority(base, offset) with offsets video 5,
\* audio 6, demuxer 9, controller 2; each affinity is copied from the config.
C4_OverrideOrDerived ==
    ExSucceeded =>
        LET p == priorities[slot]
            d == call.p_data
            base == S32ToU32(QueriedBase(call.getprio))
            Expect(ov, off) ==
                IF ov # 0 THEN ov ELSE U32ToNat(GetPriority(base, NatToU32(off)))
        IN  /\ p.video_decoder_priority = Expect(d.video_decoder_priority, 5)
            /\ p.audio_decoder_priority = Expect(d.audio_decoder_priority, 6)
            /\ p.demuxer_priority = Expect(d.demuxer_priority, 9)
            /\ p.controller_priority = Expect(d.controller_priority, 2)
            /\ p.video_decoder_affinity = d.video_decoder_affinity
            /\ p.audio_decoder_affinity = d.audio_decoder_affinity
            /\ p.demuxer_affinity = d.demuxer_affinity
            /\ p.controller_affinity = d.controller_affinity

C4_Witness ==
    /\ ExSucceeded
    /\ call.getprio = [res |-> 0, prio |-> 100]
    /\ call.p_data.video_decoder_priority = 900
    /\ call.p_data.audio_decoder_priority = 0
    /\ priorities[slot].video_decoder_priority = 900
    /\ priorities[slot].audio_decoder_priority = 643
    /\ priorities[slot].demuxer_affinity = 8

\* the PlayerHandle method each delegating operation corresponds to
Corresponding(op) ==
    CASE op = "sceAvPlayerAddSource"      -> "AddSource"
      [] op = "sceAvPlayerClose"          -> "~AvPlayer"
      [] op = "sceAvPlayerCurrentTime"    -> "CurrentTime"
      [] op = "sceAvPlayerEnableStream"   -> "EnableStream"
      [] op = "sceAvPlayerDisableStream"  -> "DisableStream"
      [] op = "sceAvPlayerGetAudioData"   -> "GetAudioData"
      [] op = "sceAvPlayerGetVideoData"   -> "GetVideoData"
      [] op = "sceAvPlayerGetVideoDataEx" -> "GetVideoData"
      [] op = "sceAvPlayerGetStreamInfo"  -> "GetStreamInfo"
      [] op = "sceAvPlayerIsActive"       -> "IsActive"
      [] op = "sceAvPlayerPostInit"       -> "PostInit"
      [] op = "sceAvPlayerStart"          -> "Start"
      [] op = "sceAvPlayerStop"           -> "Stop"
      [] op = "sceAvPlayerStreamCount"    -> "GetStreamCount"

\* Close corresponds to the destructor, which has no result: it returns OK
PassesThrough ==
    /\ Len(invoked) = 1
    /\ invoked[1].h = call.handle
    /\ invoked[1].method = Corresponding(call.op)
    /\ ret = IF call.op = "sceAvPlayerClose" THEN S32(ORBIS_OK) ELSE invoked[1].result

ListedDelegating ==
    {"sceAvPlayerAddSource", "sceAvPlayerClose", "sceAvPlayerCurrentTime",
     "sceAvPlayerEnableStream", "sceAvPlayerDisableStream", "sceAvPlayerGetAudioData",
     "sceAvPlayerGetVideoData", "sceAvPlayerGetVideoDataEx", "sceAvPlayerGetStreamInfo",
     "sceAvPlayerIsActive", "sceAvPlayerPostInit", "sceAvPlayerStart",
     "sceAvPlayerStop", "sceAvPlayerStreamCount"}

\* C5 as stated: each listed operation (DisableStream and Close among them),
\* called with a non-null handle and non-null outputs, invokes the corresponding
\* PlayerHandle method exactly once and returns that method's result unchanged.
C5_AllListedDelegate ==
    (/\ call.op \in ListedDelegating
     /\ call.handle # NULL
     /\ call.arg # NULL
     /\ ~crashed) => PassesThrough

\* C5 amended: each listed operation other than DisableStream, called with a
\* live handle and non-null outputs, invokes the corresponding PlayerHandle
\* method exactly once and returns its result unchanged (Close: the destructor,
\* and OK); DisableStream invokes no method and returns OK.
C5_DelegatesExceptDisableStream ==
    (call.op \in ListedDelegating /\ call.handle # NULL /\ call.arg # NULL) =>
        /\ (/\ call.op \notin {"sceAvPlayerDisableStream", "sceAvPlayerClose"}
            /\ state[call.handle] \in Live) => PassesThrough
        /\ (call.op = "sceAvPlayerClose" /\ freed[call.handle] = 1 /\ ~crashed) =>
              PassesThrough /\ state[call.handle] = "Destroyed"
        /\ call.op = "sceAvPlayerDisableStream" =>
              invoked = <<>> /\ ret = S32(ORBIS_OK)

C5_Witness ==
    /\ call.op = "sceAvPlayerStop"
    /\ call.handle # NULL
    /\ state[call.handle] = "Active"
    /\ Len(invoked) = 1
    /\ invoked[1].method = "Stop"
    /\ invoked[1].result = S32(-2140536830)
    /\ ret = S32(-2140536830)

StubsWithHandle ==
    {"sceAvPlayerAddSourceEx", "sceAvPlayerJumpToTime", "sceAvPlayerPause",
     "sceAvPlayerResume", "sceAvPlayerSetAvSyncMode", "sceAvPlayerSetLooping",
     "sceAvPlayerSetTrickSpeed"}

StubsWithoutHandle ==
    {"sceAvPlayerChangeStream", "sceAvPlayerSetLogCallback", "sceAvPlayerPrintf",
     "sceAvPlayerVprintf"}

\* C6: each stub returns OK on a non-null handle (or when it takes no handle),
\* INVALID_PARAMS on a null handle, and in every case changes no handle's
\* state and calls no PlayerHandle method.
C6_StubsAreNoOps ==
    [][/\ call'.op \in StubsWithHandle =>
             /\ ret' = IF call'.handle = NULL
                       THEN S32(ORBIS_AVPLAYER_ERROR_INVALID_PARAMS)
                       ELSE S32(ORBIS_OK)
             /\ invoked' = <<>>
             /\ UNCHANGED <<state, priorities, freed, slot, crashed>>
       /\ call'.op \in StubsWithoutHandle =>
             /\ ret' = S32(ORBIS_OK)
             /\ invoked' = <<>>
             /\ UNCHANGED <<state, priorities, freed, slot, crashed>>]_vars

C6_Witness ==
    /\ call.op = "sceAvPlayerPause"
    /\ call.handle # NULL
    /\ state[call.handle] = "Active"
    /\ ret = S32(ORBIS_OK)
    /\ invoked = <<>>

ClosesLive(h) ==
    /\ call'.op = "sceAvPlayerClose"
    /\ call'.handle = h
    /\ state[h] \in Live

CloseOfLiveIsTerminal ==
    \A h \in DOMAIN state :
        /\ ClosesLive(h) =>
              /\ ret' = S32(ORBIS_OK)
              /\ freed[h] = 0
              /\ freed'[h] = 1
              /\ state'[h] = "Destroyed"
        /\ state[h] = "Destroyed" => state'[h] = "Destroyed"

\* C7 as stated: Close on a live handle returns OK and frees it exactly once,
\* from Ready or Active; the handle is then Destroyed for good; and over any
\* sequence of facade calls no handle is freed more than once.
C7_NeverFreedTwice ==
    [][CloseOfLiveIsTerminal /\ \A h \in DOMAIN state : freed'[h] <= 1]_vars

\* C7 amended: Close on a live handle returns OK and frees it exactly once,
\* from Ready or Active; the handle is then Destroyed for good.  Only Close
\* frees, one delete per call, and a live handle was never freed: a handle is
\* freed a second time only by a Close called on the handle already destroyed.
C7_CloseFreesLiveOnce ==
    [][/\ CloseOfLiveIsTerminal
       /\ \A h \in DOMAIN state :
            /\ freed'[h] # freed[h] =>
                  /\ call'.op = "sceAvPlayerClose"
                  /\ call'.handle = h
                  /\ freed'[h] = freed[h] + 1
            /\ freed'[h] > 1 => state[h] = "Destroyed"]_vars

C7_Witness ==
    /\ call.op = "sceAvPlayerClose"
    /\ call.handle # NULL
    /\ state[call.handle] = "Destroyed"
    /\ freed[call.handle] = 1
    /\ ret = S32(ORBIS_OK)
    /\ Len(invoked) = 1
    /\ invoked[1].method = "~AvPlayer"

SimpleSucceeded == call.op = "sceAvPlayerInit" /\ ret.val # NULL

\* C8: Simple Init with base_priority 0 gives the handle the four priorities
\* Simple Init with base_priority 700 gives it: GetPriority(700,5),
\* GetPriority(700,6), GetPriority(700,9), GetPriority(700,2).
C8_ZeroBaseIs700 ==
    (SimpleSucceeded /\ call.data.base_priority \in {0, 700}) =>
        LET p == priorities[ret.val]
            G(off) == U32ToNat(GetPriority(NatToU32(700), NatToU32(off)))
        IN  /\ p.video_decoder_priority = G(5) /\ G(5) = 705
            /\ p.audio_decoder_priority = G(6) /\ G(6) = 706
            /\ p.demuxer_priority = G(9) /\ G(9) = 709
            /\ p.controller_priority = G(2) /\ G(2) = 702

C8_Witness ==
    /\ SimpleSucceeded
    /\ call.data.base_priority = 0
    /\ priorities[ret.val].video_decoder_priority = 705
    /\ priorities[ret.val].controller_priority = 702

\* C9: in Extended Init the base is the queried thread priority, or 700 when
\* the query fails or returns zero, and for every s32 base, negative ones
\* included, a subsystem without override gets
\* min(min(max(637, base), 764) + offset, 767) computed on that base.
C9_ClampOnSignedBase ==
    ExSucceeded =>
        LET p == priorities[slot]
            d == call.p_data
            base == QueriedBase(call.getprio)
        IN  /\ d.video_decoder_priority = 0 =>
                  p.video_decoder_priority = Clamped(base, 5)
            /\ d.audio_decoder_priority = 0 =>
                  p.audio_decoder_priority = Clamped(base, 6)
            /\ d.demuxer_priority = 0 =>
                  p.demuxer_priority = Clamped(base, 9)
            /\ d.controller_priority = 0 =>
                  p.controller_priority = Clamped(base, 2)

AllInBand(p) ==
    /\ InBand(p.video_decoder_priority)
    /\ InBand(p.audio_decoder_priority)
    /\ InBand(p.demuxer_priority)
    /\ InBand(p.controller_priority)

\* C10 as stated: after any successful Init of either variant, with any base
\* and any config, each of the four priorities of the handle lies in 637..767.
C10_AlwaysInBand ==
    \A h \in DOMAIN state : priorities[h].set => AllInBand(priorities[h])

\* C10 amended: after a successful Simple Init all four priorities lie in
\* 637..767; after a successful Extended Init each subsystem whose override is
\* zero has its priority in 637..767, while a nonzero override is handed over
\* as given and may lie outside the band.
C10_DerivedInBand ==
    /\ SimpleSucceeded => AllInBand(priorities[ret.val])
    /\ ExSucceeded =>
        LET p == priorities[slot]
            d == call.p_data
        IN  /\ d.video_decoder_priority = 0 => InBand(p.video_decoder_priority)
            /\ d.audio_decoder_priority = 0 => InBand(p.audio_decoder_priority)
            /\ d.demuxer_priority = 0 => InBand(p.demuxer_priority)
            /\ d.controller_priority = 0 => InBand(p.controller_priority)

C10_Witness ==
    /\ ExSucceeded
    /\ call.getprio = [res |-> 0, prio |-> 1000]
    /\ call.p_data.demuxer_priority = 0
    /\ call.p_data.video_decoder_priority = 900
    /\ priorities[slot].demuxer_priority = 767
    /\ priorities[slot].video_decoder_priority = 900

====
